---------------------------- MODULE Spec2Model ----------------------------
(***************************************************************************)
(* Model of Tensorflow/Amazon Question Answer model/WordEmbeddings.py:     *)
(*   - the lazily initialised global `embed` and its two accessors,        *)
(*   - build_dataset (vocabulary building and encoding),                   *)
(*   - generate_batch (skip-gram window over the encoded data).            *)
(* Each function is a small state machine whose steps follow its lines.    *)
(***************************************************************************)
EXTENDS Integers, Sequences, FiniteSets, TLC

\* ------------------------------------------------------------------ bounds
MaxWords == 4        \* longest token sequence given to build_dataset
MaxNWords == 4       \* largest n_words given to build_dataset
MaxBatch == 4        \* largest batch_size given to generate_batch
MaxSkipWindow == 2   \* largest skip_window given to generate_batch
MaxData == 5         \* longest encoded sequence given to generate_batch
MaxId == 1           \* encoded IDs given to generate_batch are 0..MaxId
MaxCalls == 5        \* calls of the embedding accessors in one run
NumThreads == 2      \* threads calling the embedding accessors

\* Tokens of the input text; "UNK" is the literal of line 28.
UNK == "UNK"
Tokens == {UNK, "a", "b"}
None == 0            \* the value of `embed` before it is set (line 8)

VARIABLES
    \* build_dataset (lines 26-42)
    bpc,                  \* position in build_dataset
    words, n_words,       \* its arguments
    count,                \* list of <<token, frequency>>
    dictionary,           \* insertion-ordered dict: sequence of <<key, value>>
    bd_data,              \* the local `data` of build_dataset
    unk_count,
    reversed_dictionary,
    ci, wi                \* positions of the two for-loops

VARIABLES
    \* generate_batch (lines 44-70)
    gpc,                  \* position in generate_batch
    gerr,                 \* the exception that ended the call, or "none"
    batch_size, num_skips, skip_window, data,   \* its arguments
    data_index, batch, labels, span, buffer,    \* its locals
    gi                    \* the loop variable i of line 56

VARIABLES
    \* the embedding accessor (lines 8-22)
    embed,                \* the global handle, None until set
    constructed,          \* how many times hub.Module(...) has been built
    assigned,             \* the handles stored into `embed`, in order
    uses,                 \* <<function, handle used>> of every finished call
    calls,                \* calls started
    tpc, tfn, tlocal      \* per thread: position, function, module it built

datasetVars == <<bpc, words, n_words, count, dictionary, bd_data, unk_count,
                 reversed_dictionary, ci, wi>>

batchVars == <<gpc, gerr, batch_size, num_skips, skip_window, data, data_index,
               batch, labels, span, buffer, gi>>

embedVars == <<embed, constructed, assigned, uses, calls, tpc, tfn, tlocal>>

vars == <<datasetVars, batchVars, embedVars>>

\* ----------------------------------------------------------------- helpers
Min(a, b) == IF a < b THEN a ELSE b
Max(a, b) == IF a > b THEN a ELSE b

SeqsUpTo(S, n) == UNION {[1..k -> S] : k \in 0..n}

RECURSIVE SumSeq(_)
SumSeq(s) == IF s = <<>> THEN 0 ELSE Head(s) + SumSeq(Tail(s))

\* ------------------------------------------------------ dict (Python dict)
DictKeys(d) == {d[i][1] : i \in DOMAIN d}
DictHas(d, k) == k \in DictKeys(d)
DictPos(d, k) == CHOOSE i \in DOMAIN d : d[i][1] = k
\* dict.get(k, default)
DictGet(d, k, default) == IF DictHas(d, k) THEN d[DictPos(d, k)][2] ELSE default
\* d[k] = v : an existing key keeps its place, a new key is appended
DictSet(d, k, v) ==
    IF DictHas(d, k) THEN [d EXCEPT ![DictPos(d, k)] = <<k, v>>]
    ELSE Append(d, <<k, v>>)

\* dict(zip(d.values(), d.keys())): built in iteration order, the later pair
\* of two with the same value wins.
RECURSIVE ZipValuesKeys(_, _)
ZipValuesKeys(d, acc) ==
    IF d = <<>> THEN acc
    ELSE ZipValuesKeys(Tail(d), DictSet(acc, Head(d)[2], Head(d)[1]))

\* ------------------------------------------- collections.Counter(words)
Distinct(w) == {w[i] : i \in DOMAIN w}
Freq(w, t) == Cardinality({i \in DOMAIN w : w[i] = t})

\* The orders in which Counter.most_common may rank the distinct tokens:
\* descending frequency; the order among equal frequencies is that of the
\* Counter's iteration, which depends on the interpreter, so every order of
\* a tie is kept.
SortedOrders(w) ==
    {p \in [1..Cardinality(Distinct(w)) -> Distinct(w)] :
        /\ \A i, j \in DOMAIN p : i # j => p[i] # p[j]
        /\ \A i, j \in DOMAIN p : i < j => Freq(w, p[i]) >= Freq(w, p[j])}

\* heapq.nlargest(n, ...): the first n of the ranking, none when n <= 0,
\* all of them when n exceeds their number.
NLargestPythonSlice(p, n) ==
    IF n >= 0 THEN SubSeq(p, 1, Min(n, Len(p)))
    ELSE SubSeq(p, 1, Max(Len(p) + n, 0))
NLargest(p, n) == SubSeq(p, 1, Min(Max(n, 0), Len(p)))

\* Counter(words).most_common(n): the possible results
MostCommon(w, n) ==
    {[i \in DOMAIN NLargest(p, n) |-> <<p[i], Freq(w, p[i])>>] : p \in SortedOrders(w)}

\* ------------------------------------------------------------ build_dataset
InitDataset ==
    /\ bpc = "idle"
    /\ words = <<>>
    /\ n_words = 0
    /\ count = <<>>
    /\ dictionary = <<>>
    /\ bd_data = <<>>
    /\ unk_count = 0
    /\ reversed_dictionary = <<>>
    /\ ci = 0
    /\ wi = 0

\* def build_dataset(words, n_words): a call with any arguments
BuildDatasetCall ==
    /\ bpc = "idle"
    /\ \E w \in SeqsUpTo(Tokens, MaxWords), n \in (0 - 2)..MaxNWords :
          /\ words' = w
          /\ n_words' = n
    /\ bpc' = "count"
    /\ count' = <<>>
    /\ dictionary' = <<>>
    /\ bd_data' = <<>>
    /\ unk_count' = 0
    /\ reversed_dictionary' = <<>>
    /\ ci' = 0
    /\ wi' = 0
    /\ UNCHANGED <<batchVars, embedVars>>

\* lines 28-30
BuildCount ==
    /\ bpc = "count"
    /\ \E mc \in MostCommon(words, n_words - 1) :
          count' = <<<<UNK, 0 - 1>>>> \o mc
    /\ dictionary' = <<>>
    /\ ci' = 1
    /\ bpc' = "dict"
    /\ UNCHANGED <<words, n_words, bd_data, unk_count, reversed_dictionary, wi>>
    /\ UNCHANGED <<batchVars, embedVars>>

\* lines 31-32, one iteration
BuildDictStep ==
    /\ bpc = "dict"
    /\ ci <= Len(count)
    /\ dictionary' = DictSet(dictionary, count[ci][1], Len(dictionary))
    /\ ci' = ci + 1
    /\ UNCHANGED <<bpc, words, n_words, count, bd_data, unk_count,
                   reversed_dictionary, wi>>
    /\ UNCHANGED <<batchVars, embedVars>>

\* lines 33-34, after the loop of line 31 ends
BuildDictEnd ==
    /\ bpc = "dict"
    /\ ci > Len(count)
    /\ bd_data' = <<>>
    /\ unk_count' = 0
    /\ wi' = 1
    /\ bpc' = "encode"
    /\ UNCHANGED <<words, n_words, count, dictionary, reversed_dictionary, ci>>
    /\ UNCHANGED <<batchVars, embedVars>>

\* line 37: which encoded tokens are tallied as unknown
TalliedOnlyIfAbsent(d, word) == ~DictHas(d, word)
Tallied(d, word) == DictGet(d, word, 0) = 0

\* lines 35-39, one iteration
BuildEncodeStep ==
    /\ bpc = "encode"
    /\ wi <= Len(words)
    /\ LET index == DictGet(dictionary, words[wi], 0) IN
          /\ unk_count' = IF Tallied(dictionary, words[wi])
                          THEN unk_count + 1 ELSE unk_count
          /\ bd_data' = Append(bd_data, index)
    /\ wi' = wi + 1
    /\ UNCHANGED <<bpc, words, n_words, count, dictionary,
                   reversed_dictionary, ci>>
    /\ UNCHANGED <<batchVars, embedVars>>

\* lines 40-42
BuildReturn ==
    /\ bpc = "encode"
    /\ wi > Len(words)
    /\ count' = [count EXCEPT ![1] = <<count[1][1], unk_count>>]
    /\ reversed_dictionary' = ZipValuesKeys(dictionary, <<>>)
    /\ bpc' = "done"
    /\ UNCHANGED <<words, n_words, dictionary, bd_data, unk_count, ci, wi>>
    /\ UNCHANGED <<batchVars, embedVars>>

\* The call is over: its locals are gone, and a later call starts afresh.
BuildDatasetExit ==
    /\ bpc = "done"
    /\ bpc' = "idle"
    /\ words' = <<>>
    /\ n_words' = 0
    /\ count' = <<>>
    /\ dictionary' = <<>>
    /\ bd_data' = <<>>
    /\ unk_count' = 0
    /\ reversed_dictionary' = <<>>
    /\ ci' = 0
    /\ wi' = 0
    /\ UNCHANGED <<batchVars, embedVars>>

NextDataset ==
    \/ BuildDatasetCall
    \/ BuildCount
    \/ BuildDictStep
    \/ BuildDictEnd
    \/ BuildEncodeStep
    \/ BuildReturn
    \/ BuildDatasetExit

\* ----------------------------------------------------------- generate_batch
\* an element of np.ndarray(...) not yet written (IDs are never negative)
Uninit == 0 - 1

InitBatch ==
    /\ gpc = "idle"
    /\ gerr = "none"
    /\ batch_size = 0
    /\ num_skips = 0
    /\ skip_window = 0
    /\ data = <<>>
    /\ data_index = 0
    /\ batch = <<>>
    /\ labels = <<>>
    /\ span = 0
    /\ buffer = <<>>
    /\ gi = 0

\* line 46: assert batch_size % num_skips == 0
Line46(bs, ns) ==
    IF ns = 0 THEN "ZeroDivisionError"
    ELSE IF bs % ns # 0 THEN "AssertionError" ELSE "ok"

\* line 47: assert num_skips <= 2 * skip_window
Line47OffByOne(ns, sw) == IF ns <= 2 * sw + 1 THEN "ok" ELSE "AssertionError"
Line47(ns, sw) == IF ns <= 2 * sw THEN "ok" ELSE "AssertionError"

\* collections.deque(maxlen=m): extend keeps the last m elements
DequeExtend(buf, xs, m) ==
    LET all == buf \o xs IN
    IF Len(all) <= m THEN all ELSE SubSeq(all, Len(all) - m + 1, Len(all))

\* data[a:b] of a list, 0-based and clipped as Python slices are
Slice(d, a, b) == SubSeq(d, Min(a, Len(d)) + 1, Min(b, Len(d)))

\* line 57: context_words = [w for w in range(span) if w != skip_window]
ContextWordsWithCentre(sp, sw) == 0..(sp - 1)
ContextWords(sp, sw) == {w \in 0..(sp - 1) : w # sw}

\* line 58: random.sample(context_words, num_skips): every sequence of
\* num_skips distinct elements may be drawn
Samples(cw, ns) ==
    {s \in [1..ns -> cw] : \A a, b \in 1..ns : a # b => s[a] # s[b]}

\* lines 62-67: the window moves on by one token.  The result is the
\* exception raised ("none" when there is none), the buffer and the cursor.
AdvanceResetsToZero(buf, di, d, sp) ==
    IF di = Len(d)
    THEN [err |-> "none", buffer |-> DequeExtend(buf, Slice(d, 0, sp), sp),
          data_index |-> 0]
    ELSE IF di >= Len(d)
    THEN [err |-> "IndexError", buffer |-> buf, data_index |-> di]
    ELSE [err |-> "none", buffer |-> DequeExtend(buf, <<d[di + 1]>>, sp),
          data_index |-> di + 1]
AdvanceWrapsAtOrPast(buf, di, d, sp) ==
    IF di >= Len(d)
    THEN [err |-> "none", buffer |-> DequeExtend(buf, Slice(d, 0, sp), sp),
          data_index |-> sp]
    ELSE [err |-> "none", buffer |-> DequeExtend(buf, <<d[di + 1]>>, sp),
          data_index |-> di + 1]
AdvanceWindow(buf, di, d, sp) ==
    IF di = Len(d)
    THEN [err |-> "none", buffer |-> DequeExtend(buf, Slice(d, 0, sp), sp),
          data_index |-> sp]
    ELSE IF di >= Len(d)
    THEN [err |-> "IndexError", buffer |-> buf, data_index |-> di]
    ELSE [err |-> "none", buffer |-> DequeExtend(buf, <<d[di + 1]>>, sp),
          data_index |-> di + 1]

\* def generate_batch(batch_size, num_skips, skip_window, data): a call with
\* any arguments; line 45
GenerateBatchCall ==
    /\ gpc = "idle"
    /\ \E bs \in 0..MaxBatch, ns \in 0..(2 * MaxSkipWindow + 1),
          sw \in 0..MaxSkipWindow, d \in SeqsUpTo(0..MaxId, MaxData) :
          /\ batch_size' = bs
          /\ num_skips' = ns
          /\ skip_window' = sw
          /\ data' = d
    /\ data_index' = 0
    /\ gpc' = "assert"
    /\ gerr' = "none"
    /\ batch' = <<>>
    /\ labels' = <<>>
    /\ span' = 0
    /\ buffer' = <<>>
    /\ gi' = 0
    /\ UNCHANGED <<datasetVars, embedVars>>

\* lines 46-47, an assertion fails
GenerateAssertFail ==
    /\ gpc = "assert"
    /\ ~(Line46(batch_size, num_skips) = "ok" /\ Line47(num_skips, skip_window) = "ok")
    /\ gerr' = IF Line46(batch_size, num_skips) # "ok"
               THEN Line46(batch_size, num_skips)
               ELSE Line47(num_skips, skip_window)
    /\ gpc' = "error"
    /\ UNCHANGED <<batch_size, num_skips, skip_window, data, data_index,
                   batch, labels, span, buffer, gi>>
    /\ UNCHANGED <<datasetVars, embedVars>>

\* lines 46-55, both assertions hold
GenerateSetup ==
    /\ gpc = "assert"
    /\ Line46(batch_size, num_skips) = "ok"
    /\ Line47(num_skips, skip_window) = "ok"
    /\ batch' = [k \in 1..batch_size |-> Uninit]
    /\ labels' = [k \in 1..batch_size |-> <<Uninit>>]
    /\ LET sp == 2 * skip_window + 1
           di == IF data_index + sp > Len(data) THEN 0 ELSE data_index
       IN /\ span' = sp
          /\ buffer' = DequeExtend(<<>>, Slice(data, di, di + sp), sp)
          /\ data_index' = di + sp
    /\ gi' = 0
    /\ gpc' = "group"
    /\ UNCHANGED <<gerr, batch_size, num_skips, skip_window, data>>
    /\ UNCHANGED <<datasetVars, embedVars>>

\* lines 56-61 for group gi: draw the context positions and emit the pairs
GenerateEmit ==
    /\ gpc = "group"
    /\ gi < batch_size \div num_skips
    /\ IF num_skips > Cardinality(ContextWords(span, skip_window))
       THEN \* random.sample: sample larger than population
            /\ gerr' = "ValueError"
            /\ gpc' = "error"
            /\ UNCHANGED <<batch, labels>>
       ELSE \E words_to_use \in Samples(ContextWords(span, skip_window), num_skips) :
            IF \/ skip_window >= Len(buffer)
               \/ \E j \in 1..num_skips : words_to_use[j] >= Len(buffer)
            THEN \* buffer[...] out of range; the arrays are lost with the call
                 /\ gerr' = "IndexError"
                 /\ gpc' = "error"
                 /\ UNCHANGED <<batch, labels>>
            ELSE /\ batch' = [k \in 1..batch_size |->
                        IF k \in (gi * num_skips + 1)..(gi * num_skips + num_skips)
                        THEN buffer[skip_window + 1] ELSE batch[k]]
                 /\ labels' = [k \in 1..batch_size |->
                        IF k \in (gi * num_skips + 1)..(gi * num_skips + num_skips)
                        THEN <<buffer[words_to_use[k - gi * num_skips] + 1]>>
                        ELSE labels[k]]
                 /\ gpc' = "advance"
                 /\ UNCHANGED gerr
    /\ UNCHANGED <<batch_size, num_skips, skip_window, data, data_index, span,
                   buffer, gi>>
    /\ UNCHANGED <<datasetVars, embedVars>>

\* lines 62-67 for group gi
GenerateAdvance ==
    /\ gpc = "advance"
    /\ LET r == AdvanceWindow(buffer, data_index, data, span) IN
          /\ gerr' = r.err
          /\ buffer' = r.buffer
          /\ data_index' = r.data_index
          /\ gpc' = IF r.err = "none" THEN "group" ELSE "error"
          /\ gi' = IF r.err = "none" THEN gi + 1 ELSE gi
    /\ UNCHANGED <<batch_size, num_skips, skip_window, data, batch, labels, span>>
    /\ UNCHANGED <<datasetVars, embedVars>>

\* lines 68-70, after the last group
GenerateReturn ==
    /\ gpc = "group"
    /\ gi >= batch_size \div num_skips
    /\ IF Len(data) = 0
       THEN /\ gerr' = "ZeroDivisionError"
            /\ gpc' = "error"
            /\ UNCHANGED data_index
       ELSE /\ data_index' = (data_index + Len(data) - span) % Len(data)
            /\ gpc' = "done"
            /\ UNCHANGED gerr
    /\ UNCHANGED <<batch_size, num_skips, skip_window, data, batch, labels,
                   span, buffer, gi>>
    /\ UNCHANGED <<datasetVars, embedVars>>

\* The call is over (returned or raised): its locals are gone, and a later
\* call starts afresh at line 45.
GenerateBatchExit ==
    /\ gpc \in {"done", "error"}
    /\ gpc' = "idle"
    /\ gerr' = "none"
    /\ batch_size' = 0
    /\ num_skips' = 0
    /\ skip_window' = 0
    /\ data' = <<>>
    /\ data_index' = 0
    /\ batch' = <<>>
    /\ labels' = <<>>
    /\ span' = 0
    /\ buffer' = <<>>
    /\ gi' = 0
    /\ UNCHANGED <<datasetVars, embedVars>>

NextBatch ==
    \/ GenerateBatchCall
    \/ GenerateAssertFail
    \/ GenerateSetup
    \/ GenerateEmit
    \/ GenerateAdvance
    \/ GenerateReturn
    \/ GenerateBatchExit

\* ------------------------------------------------- the embedding accessor
Threads == 1..NumThreads
Functions == {"UniversalEmbedding", "GetEmbeddingSize"}

InitEmbed ==
    /\ embed = None
    /\ constructed = 0
    /\ assigned = <<>>
    /\ uses = <<>>
    /\ calls = 0
    /\ tpc = [t \in Threads |-> "idle"]
    /\ tfn = [t \in Threads |-> "UniversalEmbedding"]
    /\ tlocal = [t \in Threads |-> None]

\* lines 12 and 19: if(embed == None)
IsUnsetAlways(e) == TRUE
IsUnset(e) == e = None

\* lines 14 and 21: the store into the global, given its value and the
\* module just built
StoreOnlyIfUnset(e, h) == IF e = None THEN h ELSE e
Store(e, h) == h

\* lines 10-11 and 17-18: thread t enters function f
EmbedCall(t, f) ==
    /\ tpc[t] = "idle"
    /\ calls < MaxCalls
    /\ calls' = calls + 1
    /\ tfn' = [tfn EXCEPT ![t] = f]
    /\ tlocal' = [tlocal EXCEPT ![t] = None]
    /\ tpc' = [tpc EXCEPT ![t] = "check"]
    /\ UNCHANGED <<embed, constructed, assigned, uses>>
    /\ UNCHANGED <<datasetVars, batchVars>>

\* lines 12 and 19: the test of the global
EmbedCheck(t) ==
    /\ tpc[t] = "check"
    /\ tpc' = [tpc EXCEPT ![t] = IF IsUnset(embed) THEN "construct" ELSE "use"]
    /\ UNCHANGED <<embed, constructed, assigned, uses, calls, tfn, tlocal>>
    /\ UNCHANGED <<datasetVars, batchVars>>

\* lines 13-14 and 20-21: hub.Module(...) builds a new module
EmbedConstruct(t) ==
    /\ tpc[t] = "construct"
    /\ constructed' = constructed + 1
    /\ tlocal' = [tlocal EXCEPT ![t] = constructed + 1]
    /\ tpc' = [tpc EXCEPT ![t] = "assign"]
    /\ UNCHANGED <<embed, assigned, uses, calls, tfn>>
    /\ UNCHANGED <<datasetVars, batchVars>>

\* lines 14 and 21: embed = <the module built>
EmbedAssign(t) ==
    /\ tpc[t] = "assign"
    /\ embed' = Store(embed, tlocal[t])
    /\ assigned' = Append(assigned, Store(embed, tlocal[t]))
    /\ tpc' = [tpc EXCEPT ![t] = "use"]
    /\ UNCHANGED <<constructed, uses, calls, tfn, tlocal>>
    /\ UNCHANGED <<datasetVars, batchVars>>

\* lines 15 and 22: the global is read and used, and the call returns
EmbedUse(t) ==
    /\ tpc[t] = "use"
    /\ uses' = Append(uses, <<tfn[t], embed>>)
    /\ tpc' = [tpc EXCEPT ![t] = "idle"]
    /\ UNCHANGED <<embed, constructed, assigned, calls, tfn, tlocal>>
    /\ UNCHANGED <<datasetVars, batchVars>>

\* One thread: a call runs to its return before the next begins.
NextSingle ==
    \/ \E f \in Functions : EmbedCall(1, f)
    \/ EmbedCheck(1)
    \/ EmbedConstruct(1)
    \/ EmbedAssign(1)
    \/ EmbedUse(1)

\* Several threads, interleaved between the steps above.
NextThreads ==
    \E t \in Threads :
        \/ \E f \in Functions : EmbedCall(t, f)
        \/ EmbedCheck(t)
        \/ EmbedConstruct(t)
        \/ EmbedAssign(t)
        \/ EmbedUse(t)

\* ------------------------------------------------------------ specifications
Init == InitDataset /\ InitBatch /\ InitEmbed

SpecDataset == Init /\ [][NextDataset]_vars
SpecBatch == Init /\ [][NextBatch]_vars
SpecSingle == Init /\ [][NextSingle]_vars
SpecThreads == Init /\ [][NextThreads]_vars

\* ------------------------------------------------------------------ claims
DistinctTokenCount == Cardinality(Distinct(words))
CountFrequencies == [k \in DOMAIN count |-> count[k][2]]

\* C1 (as claimed): for n_words >= 1 and any words, also words holding the
\* literal "UNK", the returned dictionary has exactly
\* min(n_words, distinct_token_count + 1) entries and maps "UNK" to 0.
C1_DictionarySizeAndUnk ==
    (bpc = "done" /\ n_words >= 1) =>
        /\ Len(dictionary) = Min(n_words, DistinctTokenCount + 1)
        /\ DictHas(dictionary, UNK)
        /\ DictGet(dictionary, UNK, 0 - 1) = 0

\* C3 (as claimed): for n_words >= 1 and any words, every token t with ID i
\* in the returned dictionary has reversed_dictionary[i] = t.
C3_RoundTrip ==
    (bpc = "done" /\ n_words >= 1) =>
        \A k \in DOMAIN dictionary :
            /\ DictHas(reversed_dictionary, dictionary[k][2])
            /\ DictGet(reversed_dictionary, dictionary[k][2], "") = dictionary[k][1]

\* C4: for n_words >= 1 and any words, the frequencies of the returned count
\* list (the UNK entry, set to the tally of tokens encoded as 0, and the
\* selected most common tokens) add up to len(words).
C4_CountSumsToLength ==
    (bpc = "done" /\ n_words >= 1) =>
        /\ count[1] = <<UNK, unk_count>>
        /\ unk_count = Cardinality({k \in DOMAIN bd_data : bd_data[k] = 0})
        /\ SumSeq(CountFrequencies) = Len(words)

\* C4's case: a returned vocabulary with selected tokens, the literal "UNK"
\* among the words, and some token tallied as unknown.
C4_Witness ==
    /\ bpc = "done"
    /\ n_words >= 2
    /\ Len(count) >= 2
    /\ UNK \in Distinct(words)
    /\ unk_count > 0
    /\ unk_count < Len(words)

\* C7 (as claimed): build_dataset fails, returning no vocabulary, whenever
\* n_words < 1.
C7_FailsBelowOne ==
    n_words < 1 => bpc # "done"

\* C7 (amended): with n_words < 1 build_dataset raises nothing and returns
\* the vocabulary holding only UNK: every token is encoded as 0 and
\* count is [['UNK', len(words)]].
C7_ReturnsUnkOnly ==
    /\ (n_words < 1 /\ bpc \in {"count", "dict", "encode"}) =>
        ENABLED (BuildCount \/ BuildDictStep \/ BuildDictEnd
                 \/ BuildEncodeStep \/ BuildReturn)
    /\ (bpc = "done" /\ n_words < 1) =>
        /\ dictionary = <<<<UNK, 0>>>>
        /\ reversed_dictionary = <<<<0, UNK>>>>
        /\ count = <<<<UNK, Len(words)>>>>
        /\ bd_data = [k \in DOMAIN words |-> 0]

\* C7's case: a call with n_words < 1 and several distinct tokens returned.
C7_Witness ==
    /\ bpc = "done"
    /\ n_words < 0
    /\ DistinctTokenCount >= 2





\* The parameter contract of generate_batch (lines 46-47)
ContractOK ==
    /\ num_skips >= 1
    /\ batch_size % num_skips = 0
    /\ num_skips <= 2 * skip_window
Groups == batch_size \div num_skips
\* the number of window positions in data
Positions == Len(data) - span + 1
\* the pairs written so far
Emitted == IF gpc = "advance" THEN (gi + 1) * num_skips ELSE gi * num_skips

\* C2: with a valid contract and len(data) >= span, every emitted pair k has
\* a window start s, 0 <= s <= len(data) - span, and an offset d,
\* 1 <= |d| <= skip_window, with batch[k] = data[s + skip_window] and
\* labels[k][0] = data[s + skip_window + d]; right after a group is emitted
\* s is the start of the window then held in the buffer, also after the
\* window has wrapped.
C2_LabelsInWindow ==
    (gpc \in {"group", "advance", "done"} /\ Len(data) >= span) =>
        /\ \A k \in 1..Emitted :
              \E s \in 0..(Len(data) - span),
                 d \in (0 - skip_window)..skip_window :
                  /\ d # 0
                  /\ batch[k] = data[s + skip_window + 1]
                  /\ labels[k] = <<data[s + skip_window + d + 1]>>
        /\ gpc = "advance" =>
              LET s == data_index - span IN
              /\ 0 <= s /\ s <= Len(data) - span
              /\ buffer = SubSeq(data, s + 1, s + span)
              /\ \A k \in (gi * num_skips + 1)..Emitted :
                    /\ batch[k] = data[s + skip_window + 1]
                    /\ \E d \in (0 - skip_window)..skip_window :
                          /\ d # 0
                          /\ labels[k] = <<data[s + skip_window + d + 1]>>

\* C2's case: a returned batch of several groups whose window wrapped to the
\* start of data.
C2_Witness ==
    /\ gpc = "done"
    /\ Len(data) >= span
    /\ Groups > Positions
    /\ num_skips >= 2
    /\ \E k \in 1..batch_size : labels[k] # <<batch[k]>>

\* C8 (as claimed): with a valid contract, generate_batch never returns a
\* result when data is shorter than span, batch_size = 0 included.
C8_NeverReturnsOnShortData ==
    (gpc # "idle" /\ ContractOK /\ Len(data) < 2 * skip_window + 1) => gpc # "done"

\* C8 (amended): with a valid contract and data shorter than span,
\* generate_batch raises (IndexError, or ZeroDivisionError for empty data
\* and batch_size = 0) and returns nothing, except that with batch_size = 0
\* and non-empty data it returns the empty batch and labels.
C8_ShortDataFailsUnlessEmptyBatch ==
    (gpc # "idle" /\ ContractOK /\ Len(data) < 2 * skip_window + 1) =>
        /\ (batch_size > 0 \/ Len(data) = 0) =>
              /\ gpc # "done"
              /\ gpc \in {"assert", "group", "advance"} =>
                    ENABLED (GenerateSetup \/ GenerateEmit \/ GenerateAdvance
                             \/ GenerateReturn)
              /\ gpc = "error" => gerr \in {"IndexError", "ZeroDivisionError"}
              /\ (gpc = "error" /\ batch_size > 0) => gerr = "IndexError"
        /\ (batch_size = 0 /\ Len(data) > 0) =>
              /\ gpc # "error"
              /\ gpc = "done" => (batch = <<>> /\ labels = <<>>)

\* C8's case: the first group was emitted from a short buffer and the call
\* then failed moving the window on.
C8_Witness ==
    /\ gpc = "error"
    /\ gerr = "IndexError"
    /\ ContractOK
    /\ Len(data) < span
    /\ Len(data) > skip_window
    /\ batch_size > 0
    /\ batch[1] # Uninit

\* C9: when batch_size % num_skips != 0 (or cannot be computed, num_skips
\* being 0) or num_skips > 2*skip_window, the call stops at the assertions
\* with an error, whatever data is: no array is made, no pair is emitted and
\* nothing is returned.
C9_ContractRejected ==
    (gpc # "idle" /\ ~ContractOK) =>
        /\ gpc \in {"assert", "error"}
        /\ gpc = "assert" => ENABLED GenerateAssertFail
        /\ gpc = "error" => gerr \in {"AssertionError", "ZeroDivisionError"}
        /\ batch = <<>> /\ labels = <<>>

\* C9's case: a call with enough data failed because num_skips exceeds
\* 2*skip_window although it divides batch_size.
C9_Witness ==
    /\ gpc = "error"
    /\ gerr = "AssertionError"
    /\ num_skips >= 1
    /\ batch_size > 0
    /\ batch_size % num_skips = 0
    /\ num_skips > 2 * skip_window
    /\ skip_window >= 1
    /\ Len(data) >= 2 * skip_window + 1

C5_BuiltOnceAndReused ==
    /\ [](/\ constructed <= 1
          /\ Len(assigned) <= 1
          /\ (embed # None) => (constructed = 1 /\ assigned = <<embed>>)
          /\ (calls >= 1 /\ tpc[1] \in {"assign", "use", "idle"}) => constructed = 1
          /\ \A k \in DOMAIN uses : uses[k][2] # None /\ uses[k][2] = embed)
    /\ [][(embed # None) => (embed' = embed /\ constructed' = constructed)]_vars

\* C5's case: several finished calls of both functions after the handle was
\* set, the first of them by GetEmbeddingSize.
C5_Witness ==
    /\ Len(uses) >= 3
    /\ uses[1][1] = "GetEmbeddingSize"
    /\ \E k \in DOMAIN uses : uses[k][1] = "UniversalEmbedding"
    /\ constructed = 1

\* C6: two threads that both found `embed` unset each build a module, and
\* once both have stored theirs the handle stored first has been
\* overwritten by the one stored second.
C6_RaceBuildsTwice ==
    \A t, u \in Threads :
        (/\ t # u
         /\ tlocal[t] # None /\ tlocal[u] # None
         /\ tpc[t] \in {"use", "idle"} /\ tpc[u] \in {"use", "idle"}) =>
            /\ constructed >= 2
            /\ Len(assigned) >= 2
            /\ tlocal[t] # tlocal[u]
            /\ {tlocal[t], tlocal[u]} \subseteq {assigned[k] : k \in DOMAIN assigned}
            /\ embed = assigned[Len(assigned)]
            /\ embed # assigned[1]

\* C6's case: a thread in UniversalEmbedding and one in GetEmbeddingSize both
\* passed the test before either stored; both have stored, and the first
\* handle is lost.
C6_Witness ==
    /\ tlocal[1] # None /\ tlocal[2] # None
    /\ tfn[1] # tfn[2]
    /\ tpc[1] = "idle" /\ tpc[2] = "idle"
    /\ constructed = 2
    /\ Len(assigned) = 2
    /\ embed # assigned[1]
    /\ \E k \in DOMAIN uses : uses[k][2] = assigned[1]

=============================================================================
